---- MODULE Spec2Model ----
(***************************************************************************)
(* The dashboard client of the Brent oil change-point analysis             *)
(* (frontend/src/App.js): the React state of the App component, the        *)
(* requests it has in flight, and the handlers that change them.           *)
(*                                                                         *)
(* A date is an ISO string; the empty string is the unset date.  A missing *)
(* JavaScript value (null, undefined) is the record Null or the string     *)
(* Undefined.  The backend is not part of the client: its answers are      *)
(* modelled from the interface description as functions of the query it    *)
(* receives (the loaded series is immutable), and any request may also     *)
(* fail in transport.                                                      *)
(***************************************************************************)
EXTENDS Integers, Sequences, FiniteSets, TLC

VARIABLES prices, events, statistics, selectedEvent, eventImpact, filters,
          dateRange, categories, loading,
          dateRangeReq, categoriesReq, fetches, impactReqs,
          consoleErrors, filterChanges

vars == <<prices, events, statistics, selectedEvent, eventImpact, filters,
          dateRange, categories, loading,
          dateRangeReq, categoriesReq, fetches, impactReqs,
          consoleErrors, filterChanges>>

(* Bounds of the exploration: user actions are finite. *)
MaxFilterChanges == 1
MaxClicks == 2

(***************************************************************************)
(* JavaScript values                                                       *)
(***************************************************************************)
Null == [null |-> TRUE]

Undefined == "<undefined>"

Truthy(s) == s # "" /\ s # Undefined

\* a || b on strings
Or(a, b) == IF Truthy(a) THEN a ELSE b

(***************************************************************************)
(* The backend, as the interface describes it                              *)
(***************************************************************************)
\* the calendar, in order; 2020-01-05 is a day after the end of the series
Calendar ==
  <<"2020-01-01", "2020-01-02", "2020-01-03", "2020-01-04", "2020-01-05">>

SeriesDates == <<"2020-01-01", "2020-01-02", "2020-01-03", "2020-01-04">>

SeriesPrices == <<40, 60, 50, 100>>

EventList ==
  << [date |-> "2020-01-01", event |-> "Sanctions", category |-> "Conflict",
      impact_level |-> "High"],
     [date |-> "2020-01-03", event |-> "OPEC cut", category |-> "OPEC",
      impact_level |-> "High"],
     [date |-> "2020-01-03", event |-> "Ceasefire", category |-> "Conflict",
      impact_level |-> "Low"] >>

DateOrd(d) == CHOOSE i \in 1..Len(Calendar) : Calendar[i] = d

\* a query parameter as the server reads it: absent and empty both mean
\* "no constraint"
Arg(q, k) == IF k \in DOMAIN q THEN q[k] ELSE ""

InRange(d, q) ==
  /\ (Arg(q, "start_date") = "" \/ DateOrd(Arg(q, "start_date")) <= DateOrd(d))
  /\ (Arg(q, "end_date") = "" \/ DateOrd(d) <= DateOrd(Arg(q, "end_date")))

RECURSIVE SelectIdx(_, _, _)
\* the indices i in lo..n with P[i], ascending
SelectIdx(P, lo, n) ==
  IF lo > n THEN <<>>
  ELSE IF P[lo] THEN <<lo>> \o SelectIdx(P, lo + 1, n)
  ELSE SelectIdx(P, lo + 1, n)

RangeIdx(q) ==
  SelectIdx([i \in 1..Len(SeriesDates) |-> InRange(SeriesDates[i], q)],
            1, Len(SeriesDates))

ServerPrices(q) ==
  LET ix == RangeIdx(q)
  IN [dates  |-> [i \in 1..Len(ix) |-> SeriesDates[ix[i]]],
      prices |-> [i \in 1..Len(ix) |-> SeriesPrices[ix[i]]]]

ServerEvents(q) ==
  LET keep == [i \in 1..Len(EventList) |->
                 /\ InRange(EventList[i].date, q)
                 /\ (Arg(q, "category") = ""
                       \/ EventList[i].category = Arg(q, "category"))
                 /\ (Arg(q, "impact_level") = ""
                       \/ EventList[i].impact_level = Arg(q, "impact_level"))]
      ix == SelectIdx(keep, 1, Len(EventList))
  IN [events |-> [i \in 1..Len(ix) |-> EventList[ix[i]]]]

SetMin(S) == CHOOSE x \in S : \A y \in S : x <= y

SetMax(S) == CHOOSE x \in S : \A y \in S : y <= x

\* the statistics request fails when the range is empty
StatisticsFails(q) == RangeIdx(q) = <<>>

\* mean, median and volatility are values the client only displays; the
\* summary is represented by the fields that are integers
ServerStatistics(q) ==
  LET ix == RangeIdx(q)
      ps == {SeriesPrices[ix[i]] : i \in 1..Len(ix)}
  IN [count |-> Len(ix), min |-> SetMin(ps), max |-> SetMax(ps)]

RECURSIVE SumOver(_)
SumOver(S) ==
  IF S = {} THEN 0
  ELSE LET i == CHOOSE x \in S : TRUE IN SeriesPrices[i] + SumOver(S \ {i})

\* window_days = 30 covers the whole series: the windows are the points
\* before the event date and the points from it on
ServerImpact(d) ==
  LET before == {i \in 1..Len(SeriesDates) : i < DateOrd(d)}
      after  == {i \in 1..Len(SeriesDates) : i >= DateOrd(d)}
      pb == SumOver(before) \div Cardinality(before)
      pa == SumOver(after) \div Cardinality(after)
  IN [impact |->
        IF Cardinality(before) < 2 \/ Cardinality(after) < 2 THEN Null
        ELSE [price_before |-> pb, price_after |-> pa,
              absolute_change |-> pa - pb,
              percentage_change |-> ((pa - pb) * 100) \div pb],
      prices |-> SeriesPrices, dates |-> SeriesDates, event_date |-> d]

ServerDateRange ==
  [start_date |-> SeriesDates[1], end_date |-> SeriesDates[Len(SeriesDates)]]

ServerCategories ==
  [categories |-> {EventList[i].category : i \in 1..Len(EventList)},
   impact_levels |-> {EventList[i].impact_level : i \in 1..Len(EventList)}]

(***************************************************************************)
(* The client                                                              *)
(***************************************************************************)
Endpoints == {"prices", "events", "statistics"}

\* axios leaves out a parameter whose value is undefined (or null) and
\* sends every other one, the empty string included
AxiosParams(params) ==
  [k \in {x \in DOMAIN params : params[x] # Undefined} |-> params[k]]

\* the three parameter objects fetchData builds from the filters it closes over
FetchDataParams(f) ==
  [prices     |-> AxiosParams([start_date |-> f.startDate,
                               end_date   |-> f.endDate]),
   events     |-> AxiosParams([category     |-> Or(f.category, Undefined),
                               impact_level |-> Or(f.impactLevel, Undefined),
                               start_date   |-> f.startDate,
                               end_date     |-> f.endDate]),
   statistics |-> AxiosParams([start_date |-> f.startDate,
                               end_date   |-> f.endDate])]

\* PriceData pairing every date with the first price
PriceDataFirstPrice(data) ==
  [idx \in 1..Len(data.dates) |->
     [date |-> data.dates[idx], price |-> data.prices[1]]]

\* pricesRes.data.dates.map((date, idx) => ({date, price: prices[idx]}))
PriceData(data) ==
  [idx \in 1..Len(data.dates) |->
     [date |-> data.dates[idx], price |-> data.prices[idx]]]

\* fetchData(): setLoading(true) and the three requests of Promise.all
StartFetchData(f) ==
  /\ loading' = TRUE
  /\ fetches' = Append(fetches,
                  [filters |-> f, requests |-> FetchDataParams(f),
                   state |-> "pending"])

LogError(msg) ==
  consoleErrors' = [consoleErrors EXCEPT ![msg] = @ + 1]

ErrorKinds == {"date range", "categories", "data", "event impact"}

Init ==
  /\ prices = <<>>
  /\ events = <<>>
  /\ statistics = Null
  /\ selectedEvent = Null
  /\ eventImpact = Null
  /\ filters = [startDate |-> "", endDate |-> "", category |-> "",
                impactLevel |-> ""]
  /\ dateRange = [start |-> "", end |-> ""]
  /\ categories = [categories |-> {}, impact_levels |-> {}]
  /\ loading = TRUE
  \* the two mount effects have run
  /\ dateRangeReq = "pending"
  /\ categoriesReq = "pending"
  /\ fetches = << [filters |-> filters, requests |-> FetchDataParams(filters),
                   state |-> "pending"] >>
  /\ impactReqs = <<>>
  /\ consoleErrors = [m \in ErrorKinds |-> 0]
  /\ filterChanges = 0

\* FetchDateRangeFilters overwriting the date filters with the bounds
FetchDateRangeFiltersOverwrite(prev, data) ==
  [prev EXCEPT !.startDate = data.start_date,
               !.endDate   = data.end_date]

\* fetchDateRange, after the response
FetchDateRangeFilters(prev, data) ==
  [prev EXCEPT !.startDate = Or(prev.startDate, data.start_date),
               !.endDate   = Or(prev.endDate, data.end_date)]

DateRangeOk ==
  /\ dateRangeReq = "pending"
  /\ dateRangeReq' = "fulfilled"
  /\ dateRange' = [start |-> ServerDateRange.start_date,
                   end   |-> ServerDateRange.end_date]
  /\ filters' = FetchDateRangeFilters(filters, ServerDateRange)
  /\ StartFetchData(filters')
  /\ UNCHANGED <<prices, events, statistics, selectedEvent, eventImpact,
                 categories, categoriesReq, impactReqs, consoleErrors,
                 filterChanges>>

DateRangeFail ==
  /\ dateRangeReq = "pending"
  /\ dateRangeReq' = "rejected"
  /\ LogError("date range")
  /\ UNCHANGED <<prices, events, statistics, selectedEvent, eventImpact,
                 filters, dateRange, categories, loading, categoriesReq,
                 fetches, impactReqs, filterChanges>>

CategoriesOk ==
  /\ categoriesReq = "pending"
  /\ categoriesReq' = "fulfilled"
  /\ categories' = ServerCategories
  /\ UNCHANGED <<prices, events, statistics, selectedEvent, eventImpact,
                 filters, dateRange, loading, dateRangeReq, fetches,
                 impactReqs, consoleErrors, filterChanges>>

CategoriesFail ==
  /\ categoriesReq = "pending"
  /\ categoriesReq' = "rejected"
  /\ LogError("categories")
  /\ UNCHANGED <<prices, events, statistics, selectedEvent, eventImpact,
                 filters, dateRange, categories, loading, dateRangeReq,
                 fetches, impactReqs, filterChanges>>

\* the dates the user enters in the date inputs (min and max do not keep a
\* typed date out)
FilterDates == {"2020-01-02", "2020-01-05"}

\* the values each filter control offers
FilterValues(key) ==
  IF key = "category" THEN {""} \cup categories.categories
  ELSE IF key = "impactLevel" THEN {""} \cup categories.impact_levels
  ELSE {""} \cup FilterDates

FilterKeys == {"startDate", "endDate", "category", "impactLevel"}

HandleFilterChange(key, value) ==
  /\ filterChanges < MaxFilterChanges
  /\ value \in FilterValues(key)
  /\ value # filters[key]
  /\ filters' = [filters EXCEPT ![key] = value]
  /\ StartFetchData(filters')
  /\ filterChanges' = filterChanges + 1
  /\ UNCHANGED <<prices, events, statistics, selectedEvent, eventImpact,
                 dateRange, categories, dateRangeReq, categoriesReq,
                 impactReqs, consoleErrors>>

\* the try block of fetchData after Promise.all resolved
FetchDataTry(i) ==
  /\ prices' = PriceData(ServerPrices(fetches[i].requests.prices))
  /\ events' = ServerEvents(fetches[i].requests.events).events
  /\ statistics' = ServerStatistics(fetches[i].requests.statistics)
  /\ UNCHANGED consoleErrors

\* FetchDataCatch clearing the statistics of the failed range
FetchDataCatchClearing(i) ==
  /\ LogError("data")
  /\ statistics' = Null
  /\ UNCHANGED <<prices, events>>

\* the catch block of fetchData
FetchDataCatch(i) ==
  /\ LogError("data")
  /\ UNCHANGED <<prices, events, statistics>>

\* Promise.all of fetchData i resolves: the last of its three responses has
\* arrived (the earlier ones run no code of the client)
FetchDataResolved(i) ==
  /\ fetches[i].state = "pending"
  /\ ~StatisticsFails(fetches[i].requests.statistics)
  /\ fetches' = [fetches EXCEPT ![i].state = "fulfilled"]
  /\ FetchDataTry(i)
  /\ loading' = FALSE
  /\ UNCHANGED <<selectedEvent, eventImpact, filters, dateRange, categories,
                 dateRangeReq, categoriesReq, impactReqs, filterChanges>>

\* Promise.all of fetchData i rejects: request r is the first to fail
FetchDataRejected(i, r) ==
  /\ fetches[i].state = "pending"
  /\ fetches' = [fetches EXCEPT ![i].state = "rejected"]
  /\ FetchDataCatch(i)
  /\ loading' = FALSE
  /\ UNCHANGED <<selectedEvent, eventImpact, filters, dateRange, categories,
                 dateRangeReq, categoriesReq, impactReqs, filterChanges>>

HandleEventClick(idx) ==
  /\ Len(impactReqs) < MaxClicks
  /\ selectedEvent' = events[idx]
  /\ impactReqs' = Append(impactReqs,
                     [event |-> events[idx],
                      params |-> AxiosParams([event_date |-> events[idx].date]),
                      state |-> "pending"])
  /\ UNCHANGED <<prices, events, statistics, eventImpact, filters, dateRange,
                 categories, loading, dateRangeReq, categoriesReq, fetches,
                 consoleErrors, filterChanges>>

EventImpactOk(j) ==
  /\ impactReqs[j].state = "pending"
  /\ impactReqs' = [impactReqs EXCEPT ![j].state = "fulfilled"]
  /\ eventImpact' = ServerImpact(impactReqs[j].params.event_date)
  /\ UNCHANGED <<prices, events, statistics, selectedEvent, filters,
                 dateRange, categories, loading, dateRangeReq, categoriesReq,
                 fetches, consoleErrors, filterChanges>>

EventImpactFail(j) ==
  /\ impactReqs[j].state = "pending"
  /\ impactReqs' = [impactReqs EXCEPT ![j].state = "rejected"]
  /\ LogError("event impact")
  /\ UNCHANGED <<prices, events, statistics, selectedEvent, eventImpact,
                 filters, dateRange, categories, loading, dateRangeReq,
                 categoriesReq, fetches, filterChanges>>

\* what the backend and the network do
Responses ==
  \/ DateRangeOk
  \/ DateRangeFail
  \/ CategoriesOk
  \/ CategoriesFail
  \/ \E i \in 1..Len(fetches) : FetchDataResolved(i)
  \/ \E i \in 1..Len(fetches) : \E r \in Endpoints : FetchDataRejected(i, r)

\* the user works the filter controls
Next ==
  \/ Responses
  \/ \E key \in FilterKeys : \E value \in FilterValues(key) :
       HandleFilterChange(key, value)

Spec == Init /\ [][Next]_vars

\* the user clicks event cards
NextImpact ==
  \/ Responses
  \/ \E idx \in 1..Len(events) : HandleEventClick(idx)
  \/ \E j \in 1..Len(impactReqs) : EventImpactOk(j)
  \/ \E j \in 1..Len(impactReqs) : EventImpactFail(j)

SpecImpact == Init /\ [][NextImpact]_vars

(***************************************************************************)
(* What the component renders                                              *)
(***************************************************************************)
\* the chart replaces the "Loading data..." placeholder
ChartShown == ~loading

\* the indices of the event cards that carry the class "selected"
SelectedCards ==
  {idx \in 1..Len(events) :
     selectedEvent # Null /\ selectedEvent.date = events[idx].date}

ImpactFields ==
  {"price_before", "price_after", "absolute_change", "percentage_change"}

\* ImpactSection without the test of eventImpact.impact
ImpactSectionUnchecked ==
  IF selectedEvent # Null /\ eventImpact # Null
  THEN [kind |-> "numeric", title |-> selectedEvent.event,
        reads |-> ImpactFields \cup {"prices", "dates", "event_date"}]
  ELSE [kind |-> "none", title |-> "", reads |-> {}]

\* the impact section: which branch is rendered, under which title, and the
\* fields of the stored response the branch reads
ImpactSection ==
  IF selectedEvent # Null /\ eventImpact # Null
  THEN IF eventImpact.impact # Null
       THEN [kind |-> "numeric", title |-> selectedEvent.event,
             reads |-> ImpactFields \cup {"prices", "dates", "event_date"}]
       ELSE [kind |-> "insufficient", title |-> selectedEvent.event,
             reads |-> {}]
  ELSE [kind |-> "none", title |-> "", reads |-> {}]

(***************************************************************************)
(* Properties                                                              *)
(***************************************************************************)
\* the request of the latest click is the one issued for selectedEvent
LastClick == impactReqs[Len(impactReqs)]

Settles(reqs, reqsNext, i, to) ==
  reqs[i].state = "pending" /\ reqsNext[i].state = to

\* C1: the insufficient-data message is shown only if the event-impact
\* request issued for the selected event succeeded with impact = null, and
\* after that request failed neither the message nor numeric values are
\* shown for the event.
C1_InsufficientOnlyForNullResponse ==
  /\ ImpactSection.kind = "insufficient" =>
       /\ LastClick.state = "fulfilled"
       /\ ServerImpact(LastClick.params.event_date).impact = Null
  /\ (impactReqs # <<>> /\ LastClick.state = "rejected") =>
       ImpactSection.kind = "none"

\* C2: a stored response is always rendered; with impact = null the section
\* shows the insufficient-data message and reads no field of the response,
\* with an impact it shows the four numbers and the window chart; the
\* arrival of a null impact logs no error and leaves selectedEvent alone.
C2_NullRendered ==
  eventImpact # Null =>
    /\ ImpactSection.kind # "none"
    /\ eventImpact.impact = Null =>
         ImpactSection.kind = "insufficient" /\ ImpactSection.reads = {}
    /\ eventImpact.impact # Null =>
         /\ ImpactSection.kind = "numeric"
         /\ ImpactFields \cup {"prices", "dates"} \subseteq ImpactSection.reads

C2_NullArrival ==
  \A j \in 1..Len(impactReqs) :
    (/\ Settles(impactReqs, impactReqs', j, "fulfilled")
     /\ ServerImpact(impactReqs[j].params.event_date).impact = Null)
    => /\ consoleErrors' = consoleErrors
       /\ selectedEvent' = selectedEvent
       /\ eventImpact' = ServerImpact(impactReqs[j].params.event_date)

C2_NullIsNoFault == []C2_NullRendered /\ [][C2_NullArrival]_vars

C2_Witness ==
  /\ eventImpact # Null
  /\ eventImpact.impact = Null
  /\ ImpactSection.kind = "insufficient"
  /\ \E j \in 1..Len(impactReqs) : impactReqs[j].state = "fulfilled"

\* the query parameter that carries each filter, per request
FilterParam ==
  [prices     |-> [startDate |-> "start_date", endDate |-> "end_date"],
   events     |-> [startDate |-> "start_date", endDate |-> "end_date",
                   category |-> "category", impactLevel |-> "impact_level"],
   statistics |-> [startDate |-> "start_date", endDate |-> "end_date"]]

\* C3: in every request fetchData issues, a filter whose value is the empty
\* string is sent as an absent parameter, never as an empty one.
C3_EmptyFilterAbsent ==
  \A i \in 1..Len(fetches) : \A r \in Endpoints :
    \A key \in DOMAIN FilterParam[r] :
      fetches[i].filters[key] = ""
        => FilterParam[r][key] \notin DOMAIN fetches[i].requests[r]

\* C4: when a fetchData succeeds, prices has one entry per date of the
\* prices response, in order, entry i pairing dates[i] with prices[i].
C4_Pairing ==
  \A i \in 1..Len(fetches) :
    Settles(fetches, fetches', i, "fulfilled") =>
      LET data == ServerPrices(fetches[i].requests.prices)
      IN /\ Len(data.dates) = Len(data.prices)
         /\ Len(prices') = Len(data.dates)
         /\ \A k \in 1..Len(data.dates) :
              /\ prices'[k].date = data.dates[k]
              /\ prices'[k].price = data.prices[k]

C4_PricesArePairing == [][C4_Pairing]_vars

C4_Witness ==
  /\ \E i \in 1..Len(fetches) : fetches[i].state = "fulfilled"
  /\ Len(prices) >= 2
  /\ prices[1].price # prices[2].price

\* C5: a fetchData of which a request fails changes nothing but loading (and
\* the error log); one whose requests all succeed replaces prices, events
\* and statistics by its own three responses; nothing else replaces them.
C5_Step ==
  /\ \A i \in 1..Len(fetches) :
       Settles(fetches, fetches', i, "rejected") =>
         UNCHANGED <<prices, events, statistics, selectedEvent, eventImpact,
                     filters, dateRange, categories>>
  /\ \A i \in 1..Len(fetches) :
       Settles(fetches, fetches', i, "fulfilled") =>
         /\ prices' = PriceData(ServerPrices(fetches[i].requests.prices))
         /\ events' = ServerEvents(fetches[i].requests.events).events
         /\ statistics' = ServerStatistics(fetches[i].requests.statistics)
  /\ <<prices, events, statistics>>' # <<prices, events, statistics>> =>
       \E i \in 1..Len(fetches) : Settles(fetches, fetches', i, "fulfilled")

C5_AllOrNothing == [][C5_Step]_vars

\* a fetchData over an empty range has failed and the data loaded before it
\* are still displayed
C5_Witness ==
  \E i \in 1..Len(fetches) :
    /\ fetches[i].state = "rejected"
    /\ StatisticsFails(fetches[i].requests.statistics)
    /\ prices # <<>>
    /\ events # <<>>
    /\ statistics # Null

\* C6: at most one event card is marked selected, and it is the card of the
\* event last clicked.
C6_OneSelectedCard ==
  /\ Cardinality(SelectedCards) <= 1
  /\ \A idx \in SelectedCards : events[idx] = selectedEvent

\* C7: a successful date-range response sets dateRange to the bounds and
\* fills only the date filters that are empty, whatever the user did in the
\* meantime; a failed one changes neither dateRange nor filters.
C7_Step ==
  /\ (dateRangeReq = "pending" /\ dateRangeReq' = "fulfilled") =>
       /\ dateRange' = [start |-> ServerDateRange.start_date,
                        end   |-> ServerDateRange.end_date]
       /\ filters'.startDate =
            IF filters.startDate # "" THEN filters.startDate
            ELSE ServerDateRange.start_date
       /\ filters'.endDate =
            IF filters.endDate # "" THEN filters.endDate
            ELSE ServerDateRange.end_date
       /\ filters'.category = filters.category
       /\ filters'.impactLevel = filters.impactLevel
  /\ (dateRangeReq = "pending" /\ dateRangeReq' = "rejected") =>
       UNCHANGED <<dateRange, filters>>

C7_FillsOnlyMissing == [][C7_Step]_vars

\* the user set the start date while the request was in flight, and the
\* response kept it and filled in the end date
C7_Witness ==
  /\ dateRangeReq = "fulfilled"
  /\ filterChanges = 1
  /\ Len(fetches) = 3
  /\ fetches[2].filters.startDate \notin {"", ServerDateRange.start_date}
  /\ fetches[2].filters.endDate = ""
  /\ fetches[3].filters.startDate = fetches[2].filters.startDate
  /\ fetches[3].filters.endDate = ServerDateRange.end_date
  /\ dateRange.start = ServerDateRange.start_date

\* C8: when no fetchData is in flight and the one issued for the current
\* filters succeeded, the displayed prices, events and statistics are the
\* ones returned for the current filters.
C8_DisplayedMatchesFilters ==
  (/\ \A i \in 1..Len(fetches) : fetches[i].state # "pending"
   /\ fetches[Len(fetches)].filters = filters
   /\ fetches[Len(fetches)].state = "fulfilled")
  => LET q == FetchDataParams(filters)
     IN /\ prices = PriceData(ServerPrices(q.prices))
        /\ events = ServerEvents(q.events).events
        /\ statistics = ServerStatistics(q.statistics)

\* C9: whenever the impact section is rendered, the stored response is the
\* one for the selected event.
C9_ImpactOfSelected ==
  ImpactSection.kind # "none" => eventImpact.event_date = selectedEvent.date

\* C10: loading is true whenever a fetchData is in flight.
C10_LoadingWhileInFlight ==
  ~loading => \A i \in 1..Len(fetches) : fetches[i].state # "pending"

====
